---- MODULE Spec2Model ----
(***************************************************************************)
(* The two display panels of chiral-network's presentation layer:          *)
(*   BlockExplorer.svelte   block list with paging and polling, the        *)
(*                          transaction lookup and the balance check;      *)
(*   the all-transactions inspector (fetchAllTransactions).                *)
(* One action is one macrotask of the JavaScript event loop together with  *)
(* the microtasks it schedules: a click or timer callback runs its handler *)
(* up to the first await; the settling of a promise runs the continuation  *)
(* after the await (try body, catch, finally) to its end.                  *)
(* The delay of a timer is a lower bound only, so timers, clicks and the   *)
(* backend's answers interleave in any order. What settles after the race  *)
(* of a fetchBlocks call is decided (a late answer, the timer of an        *)
(* answered call) has no effect on the state and is left out, as are the   *)
(* toasts of the all-transactions panel and the block details modal.       *)
(***************************************************************************)
EXTENDS Integers, Sequences, FiniteSets, TLC

\* ---------------------------------------------------------------- bounds
MaxInFlight == 2   \* fetchBlocks requests that may be pending at once
MaxPages    == 1   \* nextPage is exercised up to offset MaxPages * limit
MaxHashLen  == 2   \* length of the text typed into the transaction hash field
MaxAddrLen  == 1   \* length of the text typed into the address field
MaxBalCalls == 1   \* get_account_balance calls that may be pending at once

\* ------------------------------------------------------------- constants
limit == 10

RequiresTauri    ==
  "Block explorer requires Tauri desktop app. Please run \"npm run tauri dev\" instead of \"npm run dev\"."
FailedToFetch    ==
  "Failed to fetch blockchain data. Please start the Geth node on the <a href=\"/network\" class=\"text-blue-300 hover:underline\">Network page</a>."
TxRequiresTauri  == "Transaction lookup requires Tauri desktop app."
BalRequiresTauri == "Balance check requires Tauri desktop app."
ZeroAddress      == "0x0000000000000000000000000000000000000000"

\* A nullable value: None is null, Some(v) is the value v.
None == <<>>
Some(v) == <<v>>

Max(a, b) == IF a >= b THEN a ELSE b

\* Text typed by the user is a sequence of characters; " " is whitespace.
Chars == {" ", "x"}
RECURSIVE StringsUpTo(_)
StringsUpTo(n) ==
  IF n = 0 THEN {<<>>}
  ELSE LET shorter == StringsUpTo(n - 1)
       IN shorter \cup {Append(s, c) : s \in {r \in shorter : Len(r) = n - 1}, c \in Chars}

\* String.prototype.trim: drop the leading and the trailing whitespace.
RECURSIVE trimStart(_)
trimStart(s) ==
  IF s # <<>> /\ Head(s) = " " THEN trimStart(Tail(s)) ELSE s
RECURSIVE trimEnd(_)
trimEnd(s) ==
  IF s # <<>> /\ s[Len(s)] = " " THEN trimEnd(SubSeq(s, 1, Len(s) - 1)) ELSE s
trim(s) == trimEnd(trimStart(s))

\* ------------------------------------------------------------------ state
VARIABLES
  window,            \* TRUE iff window.__TAURI__ (or a sibling marker) is defined
  mounted,           \* "no" | "yes" | "destroyed": the component's life cycle
  interval,          \* TRUE iff the setInterval timer of onMount is armed
  isTauri,
  blocks,            \* BlockDetail[]
  error,
  offset,
  currentHeight,
  isLoading,
  slots,             \* the fetchBlocks calls suspended at their await
  shownFrom,         \* history: the offset of the request whose answer is in blocks
  lastDone,          \* history: how the fetchBlocks that ended last ended
  transactionHash,
  transactionResult,
  addressBalance,
  balanceResult,
  balanceError,
  balCalls,          \* number of get_account_balance calls not yet settled
  transactions,      \* all-transactions panel: transactions
  txIsLoading,       \* all-transactions panel: isLoading
  txError,           \* all-transactions panel: error
  txCalls,           \* number of get_all_transactions calls not yet settled
  lastCall,          \* history: the handler called directly last, and a call parity
  before             \* history: offset before the last direct nextPage / prevPage

lifeVars   == <<window, mounted, interval, isTauri>>
listVars   == <<blocks, error, offset, currentHeight, isLoading, slots,
                shownFrom, lastDone>>
lookupVars == <<transactionHash, transactionResult, addressBalance,
                balanceResult, balanceError, balCalls>>
txVars     == <<transactions, txIsLoading, txError, txCalls>>
callVars   == <<lastCall, before>>
vars       == <<lifeVars, listVars, lookupVars, txVars, callVars>>

\* ------------------------------------------------------------ data shapes
\* BlockDetail; hash 0 and miner 0 stand for the all-zero hash and address.
\* The timestamp (wall clock, display only) is left out.
Block(n) ==
  [number |-> n, hash |-> n + 1, miner |-> 1, transaction_count |-> 0]

Placeholder ==
  [number |-> 0, hash |-> 0, miner |-> 0, transaction_count |-> 0]

\* What get_latest_blocks may answer: no block, or a page of blocks.
BackendLists == {<<>>, <<Block(7), Block(6)>>}
\* What get_current_block may answer.
Heights == {7}
\* What get_account_balance may answer, and what it may fail with.
Balances == {<<"1">>}
BackendErrors == {"node unreachable"}
\* What get_all_transactions may answer.
TxLists == {<<>>, <<"0xt1">>}

Slots == 1..MaxInFlight
InFlight == {s \in Slots : slots[s] # None}
FreeSlots == Slots \ InFlight
FreeSlot == CHOOSE s \in FreeSlots : \A t \in FreeSlots : s <= t

\* ------------------------------------------------------------ fetchBlocks
\* Faulty variant: fetchBlocks without its isTauri guard.
fetchBlocksNoGuard(tauri, off) ==
  /\ isLoading' = TRUE
  /\ error' = None
  /\ slots' = [slots EXCEPT ![FreeSlot] =
                 Some([offset |-> off, blocksAns |-> None, heightAns |-> None])]

\* fetchBlocks up to its await, called with isTauri = tauri and offset = off.
fetchBlocks(tauri, off) ==
  IF ~tauri
  THEN /\ error' = Some(RequiresTauri)
       /\ isLoading' = FALSE
       /\ slots' = slots
  ELSE /\ isLoading' = TRUE
       /\ error' = None
       /\ slots' = [slots EXCEPT ![FreeSlot] =
                      Some([offset |-> off, blocksAns |-> None, heightAns |-> None])]

\* The model holds at most MaxInFlight suspended fetchBlocks calls.
CanFetch(tauri) == tauri => FreeSlots # {}

\* The continuation after the await when the race resolves, then finally.
fetchBlocksThen(s, fetchedBlocks, height) ==
  /\ blocks' = fetchedBlocks
  /\ currentHeight' = height
  /\ shownFrom' = Some(slots[s][1].offset)
  /\ lastDone' = "ok"
  /\ isLoading' = FALSE
  /\ slots' = [slots EXCEPT ![s] = None]
  /\ UNCHANGED <<error, offset>>

\* Faulty variant: the catch without the finally block (isLoading is not reset).
fetchBlocksCatchNoFinally(s) ==
  /\ error' = Some(FailedToFetch)
  /\ IF Len(blocks) = 0
     THEN /\ blocks' = <<Placeholder>>
          /\ currentHeight' = 0
          /\ shownFrom' = None
     ELSE UNCHANGED <<blocks, currentHeight, shownFrom>>
  /\ lastDone' = "failed"
  /\ slots' = [slots EXCEPT ![s] = None]
  /\ UNCHANGED <<offset, isLoading>>

\* Faulty variant: the catch shows the placeholder whatever the list holds.
fetchBlocksCatchAlwaysPlaceholder(s) ==
  /\ error' = Some(FailedToFetch)
  /\ blocks' = <<Placeholder>>
  /\ currentHeight' = 0
  /\ shownFrom' = None
  /\ lastDone' = "failed"
  /\ isLoading' = FALSE
  /\ slots' = [slots EXCEPT ![s] = None]
  /\ UNCHANGED offset

\* The continuation after the await when the race rejects: catch, then finally.
fetchBlocksCatch(s) ==
  /\ error' = Some(FailedToFetch)
  /\ IF Len(blocks) = 0
     THEN /\ blocks' = <<Placeholder>>
          /\ currentHeight' = 0
          /\ shownFrom' = None
     ELSE UNCHANGED <<blocks, currentHeight, shownFrom>>
  /\ lastDone' = "failed"
  /\ isLoading' = FALSE
  /\ slots' = [slots EXCEPT ![s] = None]
  /\ UNCHANGED offset

\* invoke('get_latest_blocks') of request s resolves with the list v.
ResolveBlocks(s, v) ==
  /\ s \in InFlight
  /\ slots[s][1].blocksAns = None
  /\ IF slots[s][1].heightAns # None
     THEN fetchBlocksThen(s, v, slots[s][1].heightAns[1])
     ELSE /\ slots' = [slots EXCEPT ![s] = Some([slots[s][1] EXCEPT !.blocksAns = Some(v)])]
          /\ UNCHANGED <<blocks, error, offset, currentHeight, isLoading,
                         shownFrom, lastDone>>
  /\ UNCHANGED <<lifeVars, lookupVars, txVars, callVars>>

\* invoke('get_current_block') of request s resolves with the height h.
ResolveHeight(s, h) ==
  /\ s \in InFlight
  /\ slots[s][1].heightAns = None
  /\ IF slots[s][1].blocksAns # None
     THEN fetchBlocksThen(s, slots[s][1].blocksAns[1], h)
     ELSE /\ slots' = [slots EXCEPT ![s] = Some([slots[s][1] EXCEPT !.heightAns = Some(h)])]
          /\ UNCHANGED <<blocks, error, offset, currentHeight, isLoading,
                         shownFrom, lastDone>>
  /\ UNCHANGED <<lifeVars, lookupVars, txVars, callVars>>

\* One of the two invokes of request s rejects: Promise.all rejects.
RejectInvoke(s) ==
  /\ s \in InFlight
  /\ fetchBlocksCatch(s)
  /\ UNCHANGED <<lifeVars, lookupVars, txVars, callVars>>

\* The 10 s setTimeout of request s fires before the race is settled.
Timeout(s) ==
  /\ s \in InFlight
  /\ fetchBlocksCatch(s)
  /\ UNCHANGED <<lifeVars, lookupVars, txVars, callVars>>

\* --------------------------------------------------------------- paging
\* Faulty variant: prevPage without Math.max(0, ...).
prevPageOffsetNoFloor(o) == o - limit

nextPageOffset(o) == o + limit
prevPageOffset(o) == Max(0, o - limit)

nextPage ==
  /\ offset' = nextPageOffset(offset)
  /\ fetchBlocks(isTauri, offset')
  /\ UNCHANGED <<blocks, currentHeight, shownFrom, lastDone>>

prevPage ==
  /\ offset' = prevPageOffset(offset)
  /\ fetchBlocks(isTauri, offset')
  /\ UNCHANGED <<blocks, currentHeight, shownFrom, lastDone>>

\* --------------------------------------------------------------- onMount
onMount ==
  /\ isTauri' = window
  /\ IF isTauri'
     THEN /\ fetchBlocks(TRUE, offset)
          /\ interval' = TRUE
     ELSE /\ error' = Some(RequiresTauri)
          /\ interval' = FALSE
          /\ UNCHANGED <<isLoading, slots>>
  /\ UNCHANGED <<blocks, offset, currentHeight, shownFrom, lastDone>>

Mount ==
  /\ mounted = "no"
  /\ mounted' = "yes"
  /\ onMount
  /\ UNCHANGED <<window, lookupVars, txVars, callVars>>

\* Faulty variant: onMount returns no cleanup function.
onDestroyKeepsTimer ==
  UNCHANGED <<interval, isTauri>>

\* The cleanup function onMount returns in Tauri mode: clearInterval(interval).
onDestroy ==
  /\ interval' = FALSE
  /\ UNCHANGED isTauri

Destroy ==
  /\ mounted = "yes"
  /\ mounted' = "destroyed"
  /\ onDestroy
  /\ UNCHANGED <<window, listVars, lookupVars, txVars, callVars>>

\* A tick of setInterval(fetchBlocks, 10000).
Tick ==
  /\ interval
  /\ CanFetch(isTauri)
  /\ fetchBlocks(isTauri, offset)
  /\ UNCHANGED <<blocks, offset, currentHeight, shownFrom, lastDone>>
  /\ UNCHANGED <<lifeVars, lookupVars, txVars, callVars>>

\* The Next button: disabled={isLoading}.
ClickNext ==
  /\ mounted = "yes"
  /\ ~isLoading
  /\ offset < MaxPages * limit
  /\ CanFetch(isTauri)
  /\ nextPage
  /\ UNCHANGED <<lifeVars, lookupVars, txVars, callVars>>

\* The Previous button: disabled={offset === 0 || isLoading}.
ClickPrev ==
  /\ mounted = "yes"
  /\ ~(offset = 0 \/ isLoading)
  /\ CanFetch(isTauri)
  /\ prevPage
  /\ UNCHANGED <<lifeVars, lookupVars, txVars, callVars>>

\* ----------------------------------------------- handlers called directly
\* lastCall names the handler and flips its parity at every call, so that a
\* call that changes nothing else is still a step.
Called(name) == lastCall' = [name |-> name, parity |-> 1 - lastCall.parity]
IsCall(name) == lastCall'.name = name /\ lastCall'.parity # lastCall.parity

CallFetchBlocks ==
  /\ mounted = "yes"
  /\ CanFetch(isTauri)
  /\ fetchBlocks(isTauri, offset)
  /\ Called("fetchBlocks")
  /\ UNCHANGED <<blocks, offset, currentHeight, shownFrom, lastDone, before>>
  /\ UNCHANGED <<lifeVars, lookupVars, txVars>>

CallNextPage ==
  /\ mounted = "yes"
  /\ offset < MaxPages * limit
  /\ CanFetch(isTauri)
  /\ nextPage
  /\ Called("nextPage")
  /\ before' = offset
  /\ UNCHANGED <<lifeVars, lookupVars, txVars>>

CallPrevPage ==
  /\ mounted = "yes"
  /\ CanFetch(isTauri)
  /\ prevPage
  /\ Called("prevPage")
  /\ before' = offset
  /\ UNCHANGED <<lifeVars, lookupVars, txVars>>

\* ------------------------------------------------------- lookup section
\* bind:value of the two input fields.
TypeHash(s) ==
  /\ mounted = "yes"
  /\ transactionHash # s
  /\ transactionHash' = s
  /\ UNCHANGED <<transactionResult, addressBalance, balanceResult, balanceError,
                 balCalls>>
  /\ UNCHANGED <<lifeVars, listVars, txVars, callVars>>

TypeAddress(s) ==
  /\ mounted = "yes"
  /\ addressBalance # s
  /\ addressBalance' = s
  /\ UNCHANGED <<transactionHash, transactionResult, balanceResult, balanceError,
                 balCalls>>
  /\ UNCHANGED <<lifeVars, listVars, txVars, callVars>>

\* The record fetchTransaction fabricates for the entered hash.
Fabricated(hash) ==
  [hash |-> hash, from |-> ZeroAddress, to |-> ZeroAddress,
   value |-> "0", gas |-> "21000", gasPrice |-> "20000000000"]

\* Faulty variant: !s, without the trim.
isBlankNoTrim(s) == s = <<>>

\* !s.trim()
isBlank(s) == trim(s) = <<>>

fetchTransaction ==
  IF isBlank(transactionHash)
  THEN UNCHANGED <<transactionResult, balanceError>>
  ELSE IF ~isTauri
  THEN /\ balanceError' = Some(TxRequiresTauri)
       /\ UNCHANGED transactionResult
  ELSE /\ balanceError' = None
       /\ transactionResult' = Some(Fabricated(transactionHash))

CallFetchTransaction ==
  /\ mounted = "yes"
  /\ fetchTransaction
  /\ Called("fetchTransaction")
  /\ UNCHANGED <<transactionHash, addressBalance, balanceResult, balCalls, before>>
  /\ UNCHANGED <<lifeVars, listVars, txVars>>

\* fetchBalance up to its await.
fetchBalance ==
  IF isBlank(addressBalance)
  THEN UNCHANGED <<balanceError, balCalls>>
  ELSE IF ~isTauri
  THEN /\ balanceError' = Some(BalRequiresTauri)
       /\ UNCHANGED balCalls
  ELSE /\ balanceError' = None
       /\ balCalls' = balCalls + 1

CallFetchBalance ==
  /\ mounted = "yes"
  /\ (isTauri /\ ~isBlank(addressBalance)) => balCalls < MaxBalCalls
  /\ fetchBalance
  /\ Called("fetchBalance")
  /\ UNCHANGED <<transactionHash, transactionResult, addressBalance, balanceResult,
                 before>>
  /\ UNCHANGED <<lifeVars, listVars, txVars>>

\* `${balance} ETH`
withUnit(balance) == balance \o <<" ", "E", "T", "H">>

\* invoke('get_account_balance') resolves with balance: the rest of the try.
BalResolve(balance) ==
  /\ balCalls > 0
  /\ balCalls' = balCalls - 1
  /\ balanceResult' = Some(withUnit(balance))
  /\ UNCHANGED <<transactionHash, transactionResult, addressBalance, balanceError>>
  /\ UNCHANGED <<lifeVars, listVars, txVars, callVars>>

\* invoke('get_account_balance') rejects with e: the catch.
BalReject(e) ==
  /\ balCalls > 0
  /\ balCalls' = balCalls - 1
  /\ balanceError' = Some(e)
  /\ UNCHANGED <<transactionHash, transactionResult, addressBalance, balanceResult>>
  /\ UNCHANGED <<lifeVars, listVars, txVars, callVars>>

\* ------------------------------------------------- all-transactions panel
\* fetchAllTransactions up to its await.
fetchAllTransactions ==
  /\ txIsLoading' = TRUE
  /\ txError' = None
  /\ txCalls' = txCalls + 1
  /\ UNCHANGED transactions

\* The Fetch All Transactions button: disabled={isLoading}.
ClickFetchAll ==
  /\ ~txIsLoading
  /\ fetchAllTransactions
  /\ UNCHANGED <<lifeVars, listVars, lookupVars, callVars>>

\* invoke('get_all_transactions') resolves: the rest of the try, then finally.
fetchAllThen(result) ==
  /\ transactions' = result
  /\ txIsLoading' = FALSE
  /\ UNCHANGED txError

\* Faulty variant: the catch without the finally block (isLoading is not reset).
fetchAllCatchNoFinally(e) ==
  /\ txError' = Some(<<"Failed to fetch transactions: ", e>>)
  /\ UNCHANGED <<transactions, txIsLoading>>

\* invoke('get_all_transactions') rejects with e: catch, then finally.
fetchAllCatch(e) ==
  /\ txError' = Some(<<"Failed to fetch transactions: ", e>>)
  /\ txIsLoading' = FALSE
  /\ UNCHANGED transactions

TxResolve(result) ==
  /\ txCalls > 0
  /\ txCalls' = txCalls - 1
  /\ fetchAllThen(result)
  /\ UNCHANGED <<lifeVars, listVars, lookupVars, callVars>>

TxReject(e) ==
  /\ txCalls > 0
  /\ txCalls' = txCalls - 1
  /\ fetchAllCatch(e)
  /\ UNCHANGED <<lifeVars, listVars, lookupVars, callVars>>

\* ------------------------------------------------------------------ Init
Init ==
  /\ window \in BOOLEAN
  /\ mounted = "no"
  /\ interval = FALSE
  /\ isTauri = FALSE
  /\ blocks = <<>>
  /\ error = None
  /\ offset = 0
  /\ currentHeight = 0
  /\ isLoading = FALSE
  /\ slots = [s \in Slots |-> None]
  /\ shownFrom = None
  /\ lastDone = "none"
  /\ transactionHash = <<>>
  /\ transactionResult = None
  /\ addressBalance = <<>>
  /\ balanceResult = None
  /\ balanceError = None
  /\ balCalls = 0
  /\ transactions = <<>>
  /\ txIsLoading = FALSE
  /\ txError = None
  /\ txCalls = 0
  /\ lastCall = [name |-> "none", parity |-> 0]
  /\ before = 0

\* ------------------------------------------------------- specifications
\* The block list of the explorer, driven through its markup and its timers.
Next ==
  \/ Mount
  \/ Destroy
  \/ Tick
  \/ ClickNext
  \/ ClickPrev
  \/ \E s \in Slots : \E v \in BackendLists : ResolveBlocks(s, v)
  \/ \E s \in Slots : \E h \in Heights : ResolveHeight(s, h)
  \/ \E s \in Slots : RejectInvoke(s)
  \/ \E s \in Slots : Timeout(s)

Spec == Init /\ [][Next]_vars

\* The event loop runs every timer that is due: an armed timeout fires.
FairSpec == Spec /\ \A s \in Slots : WF_vars(Timeout(s))

\* The block list with nextPage and prevPage called in any order.
PagingNext ==
  \/ Mount
  \/ CallNextPage
  \/ CallPrevPage
  \/ \E s \in Slots : \E v \in BackendLists : ResolveBlocks(s, v)
  \/ \E s \in Slots : \E h \in Heights : ResolveHeight(s, h)
  \/ \E s \in Slots : RejectInvoke(s)
  \/ \E s \in Slots : Timeout(s)

PagingSpec == Init /\ [][PagingNext]_vars

\* The explorer in a web browser (no Tauri marker on window), its handlers
\* called in any order.
WebInit == Init /\ window = FALSE

WebNext ==
  \/ Mount
  \/ Destroy
  \/ CallFetchBlocks
  \/ CallNextPage
  \/ CallPrevPage
  \/ \E s \in StringsUpTo(MaxHashLen) : TypeHash(s)
  \/ \E s \in StringsUpTo(MaxAddrLen) : TypeAddress(s)
  \/ CallFetchTransaction
  \/ CallFetchBalance

WebSpec == WebInit /\ [][WebNext]_vars

\* The lookup section of the explorer, its handlers called in any order.
LookupNext ==
  \/ Mount
  \/ \E s \in StringsUpTo(MaxHashLen) : TypeHash(s)
  \/ \E s \in StringsUpTo(MaxAddrLen) : TypeAddress(s)
  \/ CallFetchTransaction
  \/ CallFetchBalance
  \/ \E b \in Balances : BalResolve(b)
  \/ \E e \in BackendErrors : BalReject(e)

LookupSpec == Init /\ [][LookupNext]_vars

\* The remote calls of both panels and the timers that guard them. The backend
\* may leave any call unanswered; the only timers are those of fetchBlocks.
CallsNext ==
  \/ Mount
  \/ \E s \in Slots : Timeout(s)
  \/ \E s \in StringsUpTo(MaxAddrLen) : TypeAddress(s)
  \/ CallFetchBalance
  \/ \E b \in Balances : BalResolve(b)
  \/ \E e \in BackendErrors : BalReject(e)
  \/ ClickFetchAll
  \/ \E r \in TxLists : TxResolve(r)
  \/ \E e \in BackendErrors : TxReject(e)

CallsSpec == Init /\ [][CallsNext]_vars /\ \A s \in Slots : WF_vars(Timeout(s))

\* ------------------------------------------------------------------ claims
\* A step in which the suspended fetchBlocks call of slot s ends.
Ends(s) == slots[s] # None /\ slots'[s] = None
\* Neither invoke of the request in slot s has been answered.
Unanswered(s) == slots[s][1].blocksAns = None /\ slots[s][1].heightAns = None

\* C1: in Tauri mode every started fetchBlocks eventually ends, whatever the
\* backend does; a call that ends without any answer of the backend (the
\* timeout rejected the race) leaves error non-null and isLoading false.
\* (A call suspended in slot s ends: (slots[s] # None) ~> (slots[s] = None),
\* which is []<>(slots[s] = None).)
C1_FetchBlocksEnds ==
  /\ \A s \in Slots : []<>(slots[s] = None)
  /\ [][\A s \in Slots : (Ends(s) /\ Unanswered(s)) =>
          (error' # None /\ isLoading' = FALSE)]_vars

C1_Witness ==
  /\ isTauri
  /\ lastDone = "failed"
  /\ shownFrom = None
  /\ InFlight = {}
  /\ error = Some(FailedToFetch)
  /\ ~isLoading

\* C5: a fetchBlocks that fails sets error to the failure text and never leaves
\* the list empty: a non-empty list and currentHeight are kept, an empty list
\* becomes the single placeholder block 0 with currentHeight 0.
C5_FailureKeepsOrPlaceholds ==
  [][\A s \in Slots : (Ends(s) /\ lastDone' = "failed") =>
       /\ error' = Some(FailedToFetch)
       /\ blocks' # <<>>
       /\ (blocks # <<>> => blocks' = blocks /\ currentHeight' = currentHeight)
       /\ (blocks = <<>> =>
             /\ Len(blocks') = 1
             /\ blocks'[1].number = 0
             /\ currentHeight' = 0)]_vars

C5_Witness ==
  /\ lastDone = "failed"
  /\ error = Some(FailedToFetch)
  /\ blocks = <<Block(7), Block(6)>>
  /\ currentHeight = 7

\* C6: mounting in Tauri mode starts exactly one fetchBlocks and arms the
\* interval timer; the timer stays armed, and a tick starts a further
\* fetchBlocks, for as long as the component is mounted; once the component is
\* destroyed the timer is cleared and no fetchBlocks is started any more.
C6_Polling ==
  /\ [](interval <=> (mounted = "yes" /\ isTauri))
  /\ []((interval /\ FreeSlots # {}) => ENABLED Tick)
  /\ [][(mounted = "no" /\ mounted' = "yes" /\ isTauri') =>
          /\ Cardinality(InFlight') = 1
          /\ \A s \in InFlight' : slots'[s][1].offset = offset
          /\ interval']_vars
  /\ [][mounted = "destroyed" =>
          \A s \in Slots : slots[s] = None => slots'[s] = None]_vars

C6_Witness ==
  /\ mounted = "destroyed"
  /\ isTauri
  /\ ~interval
  /\ lastDone = "ok"

\* C8: isLoading is true whenever some fetchBlocks request is in flight.
C8_LoadingWhileInFlight == InFlight # {} => isLoading

\* C9: when no fetchBlocks request is in flight and the last one to end
\* succeeded, the blocks shown are the answer to a request made with the
\* current offset.
C9_ShownMatchesOffset ==
  (InFlight = {} /\ lastDone = "ok") => shownFrom = Some(offset)

\* C3: offset is a non-negative multiple of limit; nextPage adds limit, prevPage
\* subtracts limit without going below 0 (at offset 0 it leaves 0), and prevPage
\* after nextPage restores the offset.
C3_Paging ==
  /\ offset >= 0
  /\ offset % limit = 0
  /\ lastCall.name = "nextPage" => offset = before + limit
  /\ lastCall.name = "prevPage" =>
       /\ before = 0 => offset = 0
       /\ before >= limit => offset = before - limit
  /\ prevPageOffset(nextPageOffset(offset)) = offset

C3_Witness ==
  /\ lastCall.name = "prevPage"
  /\ before = 0
  /\ offset = 0

\* C4: when Tauri is not detected, no remote call is ever pending and the
\* polling timer is never armed; fetchBlocks (also through nextPage and
\* prevPage) sets the requires-Tauri error and leaves isLoading false, blocks
\* and currentHeight as they were.
C4_NoRemoteCallInBrowser ==
  ~isTauri =>
    /\ InFlight = {}
    /\ balCalls = 0
    /\ ~interval
    /\ ~isLoading
    /\ blocks = <<>>
    /\ currentHeight = 0
    /\ lastCall.name \in {"fetchBlocks", "nextPage", "prevPage"} =>
         error = Some(RequiresTauri)

C4_Witness ==
  /\ mounted = "yes"
  /\ ~isTauri
  /\ lastCall.name = "fetchBlocks"
  /\ offset = limit
  /\ error = Some(RequiresTauri)
  /\ balanceError = Some(BalRequiresTauri)
  /\ transactionHash # <<>>

\* The text is empty or holds whitespace only.
OnlyWhitespace(s) == \A i \in 1..Len(s) : s[i] = " "

\* C7: fetchTransaction with a blank transactionHash changes nothing; with a
\* non-blank one in Tauri mode it issues no remote call and sets
\* transactionResult to the record of fixed constants whose hash is the text
\* entered.
C7_FetchTransaction ==
  [][IsCall("fetchTransaction") =>
       IF OnlyWhitespace(transactionHash)
       THEN UNCHANGED <<lifeVars, listVars, lookupVars, txVars>>
       ELSE isTauri =>
              /\ transactionResult' # None
              /\ transactionResult'[1].hash = transactionHash
              /\ transactionResult'[1].from = ZeroAddress
              /\ transactionResult'[1].to = ZeroAddress
              /\ transactionResult'[1].value = "0"
              /\ transactionResult'[1].gas = "21000"
              /\ transactionResult'[1].gasPrice = "20000000000"
              /\ balCalls' = balCalls
              /\ txCalls' = txCalls
              /\ slots' = slots]_vars

C7_Witness ==
  /\ isTauri
  /\ lastCall.name = "fetchTransaction"
  /\ transactionHash = <<" ", "x">>
  /\ transactionResult # None
  /\ transactionResult[1].hash = transactionHash

\* C10: balanceResult and balanceError are never both non-null.
C10_BalanceOrError == ~(balanceResult # None /\ balanceError # None)

\* C2 as stated: every remote call is guarded by a timeout, so that
\* fetchAllTransactions and fetchBalance end, and isLoading of the
\* all-transactions panel returns to false, also when the backend stays silent.
C2_EveryCallEnds ==
  /\ txIsLoading ~> ~txIsLoading
  /\ (balCalls > 0) ~> (balCalls = 0)

\* C2 as amended: only the fetchBlocks calls are guarded by the timeout and end
\* whatever the backend does; isLoading of the all-transactions panel is true
\* exactly while its get_all_transactions call is unsettled, and a call of
\* fetchAllTransactions or fetchBalance ends only in a step of the backend
\* (the call settles), never by a timer.
C2_OnlyFetchBlocksGuarded ==
  /\ \A s \in Slots : []<>(slots[s] = None)
  /\ [](txIsLoading <=> txCalls > 0)
  /\ [][(txIsLoading /\ ~txIsLoading') => txCalls' = txCalls - 1]_vars

C2_Witness ==
  /\ ~txIsLoading
  /\ txCalls = 0
  /\ txError # None
  /\ transactions = <<"0xt1">>
  /\ balanceResult # None
====
